---- MODULE Spec2Model ----
(***************************************************************************)
(* Verification model of vidread-backend: the video processing service     *)
(* (app/services/video.py), its collaborators (youtube.py, ai.py), the     *)
(* document store set up in app/core/database.py and the token-aware       *)
(* chunker of app/services/content_processor.py.                           *)
(*                                                                         *)
(* A URL is a sequence of tokens (a known URL fragment or one character);  *)
(* texts are sequences of characters; a transcript handed to the           *)
(* simplified backend is represented by its length in characters, because  *)
(* _simplified_processing only slices it at fixed offsets.                 *)
(***************************************************************************)
EXTENDS Integers, Sequences, FiniteSets, TLC

VARIABLES
    videos,       \* db.db.videos: the set of stored video documents
    errors,       \* db.db.processing_errors: the set of stored error records
    nextOid,      \* next ObjectId the store hands out
    started,      \* number of process_and_save_video calls started so far
    use_modal,    \* AIProcessingService.use_modal
    pc,           \* per request: position in process_and_save_video
    url,          \* per request: the video_url argument
    vid,          \* per request: the extracted video id
    data,         \* per request: video_data / processed_data in flight
    transcript,   \* per request: the transcript get_transcript returned
    result,       \* per request: <<doc>> returned to the caller, <<>> if none
    g,            \* per request: observation record of the current call
    delAfter,     \* per request: a delete happened since the call finished
    edits,        \* number of update_video and delete_video calls so far
    faults,       \* number of storage calls that have failed so far
    text,         \* chunker: input text
    max_tokens,   \* chunker: token budget
    cpt,          \* chunker: characters per token of the tokenizer
    chunks,       \* chunker: the returned list of chunks
    cpc,          \* chunker: "input" before the call, "done" after
    stage,            \* process_transcript: the stage the run is at
    chapter_outline,  \* process_transcript: the outline entries (0-based)
    transcript_chunks,\* process_transcript: len(transcript_chunks)
    chunk_index,      \* process_transcript: i of the chapter loop
    chapters,         \* process_transcript: the merged chapter list
    glossary,         \* process_transcript: the glossary mapping's terms
    further_reading,  \* process_transcript: the further reading list
    processed_content,\* process_transcript: <<document>> once returned
    prompts,          \* process_transcript: chapters_to_process per chunk
    responses,        \* process_transcript: the chapter response per chunk
    overview_data,    \* process_transcript: <<keys of the parsed overview>>
    llm_calls,        \* process_transcript: the completion calls made so far
    clock,            \* POST /process: datetime.utcnow(), in seconds
    background_tasks, \* POST /process: the tasks added to BackgroundTasks
    api_log,          \* POST /process: the responses sent so far
    failed_stages,    \* ModalProcessor: the stages whose call fails
    ai_transcript,    \* process_video_content: the transcript argument
    ai_out,           \* process_video_content: the video_data returned
    ai_pc,            \* process_video_content: "input", then "done"
    ai_remote,        \* ModalProcessor: what it returns when no stage fails
    task_pc,          \* event loop: per request task, where its coroutine is
    loop_thread,      \* event loop: the task holding the loop's thread
    duration_sec,     \* transcribe_audio: duration_sec
    chunk_ms,         \* transcribe_audio: chunk_ms after the clamp
    stt_i,            \* transcribe_audio: i of the chunk loop
    full_transcript,  \* transcribe_audio: full_transcript, one piece per +=
    all_segments,     \* transcribe_audio: all_segments
    stt_calls,        \* transcribe_audio: the transcription calls made so far
    stt_pc,           \* transcribe_audio: position in the function
    stt_result,       \* transcribe_audio: <<the returned dict>>
    catalog,          \* get_videos: db.db.videos as get_videos reads it
    has_text_index,   \* get_videos: the collection has a text index
    list_args,        \* get_videos: the arguments of the call
    list_result,      \* get_videos: <<the returned list>>
    list_pc           \* get_videos: "input", then "done"

vars == <<videos, errors, nextOid, started, use_modal, pc, url, vid, data,
          transcript, result, g, delAfter, edits, faults,
          text, max_tokens, cpt, chunks, cpc,
          stage, chapter_outline, transcript_chunks, chunk_index, chapters,
          glossary, further_reading, processed_content, prompts, responses,
          overview_data, llm_calls,
          clock, background_tasks, api_log,
          failed_stages, ai_transcript, ai_out, ai_pc, ai_remote,
          task_pc, loop_thread,
          duration_sec, chunk_ms, stt_i, full_transcript, all_segments,
          stt_calls, stt_pc, stt_result,
          catalog, has_text_index, list_args, list_result, list_pc>>

svcVars == <<videos, errors, nextOid, started, use_modal, pc, url, vid, data,
             transcript, result, g, delAfter, edits, faults>>

chunkVars == <<text, max_tokens, cpt, chunks, cpc>>

bookVars == <<stage, chapter_outline, transcript_chunks, chunk_index,
              chapters, glossary, further_reading, processed_content,
              prompts, responses, overview_data, llm_calls>>

apiVars == <<clock, background_tasks, api_log>>

aiVars == <<failed_stages, ai_transcript, ai_out, ai_pc, ai_remote>>

loopVars == <<task_pc, loop_thread>>

sttVars == <<duration_sec, chunk_ms, stt_i, full_transcript, all_segments,
             stt_calls, stt_pc, stt_result>>

listVars == <<catalog, has_text_index, list_args, list_result, list_pc>>

\* Everything process_and_save_video, update_video and delete_video leave
\* alone.
besideSvc == <<chunkVars, bookVars, apiVars, aiVars, loopVars, sttVars,
               listVars>>

(***************************************************************************)
(* Bounds                                                                  *)
(***************************************************************************)
MaxCalls == 2          \* process_and_save_video calls per behaviour
MaxUpsets == 1         \* update_video, delete_video and failing storage
                       \* calls per behaviour
MaxTextLen == 5        \* characters of a chunker input
MaxBudget == 3         \* largest chunker token budget tried

Procs == {"r1", "r2"}

\* Requests served by one event loop at a time, as tasks 1..MaxTasks.
MaxTasks == 3

Tasks == 1..MaxTasks  \* concurrently served requests

(***************************************************************************)
(* Small helpers                                                           *)
(***************************************************************************)
SetMin(S) == CHOOSE x \in S : \A y \in S : x <= y

SetMax(S) == CHOOSE x \in S : \A y \in S : x >= y

MinOf(a, b) == IF a <= b THEN a ELSE b

(***************************************************************************)
(* YouTubeService._extract_video_id                                        *)
(***************************************************************************)
\* Number of characters a token stands for.
TokenLen(t) ==
    CASE t = "https://www." -> 12
      [] t = "https://" -> 8
      [] t = "youtube.com/watch" -> 17
      [] t = "youtube.com/embed/" -> 18
      [] t = "youtube.com/v/" -> 14
      [] t = "youtu.be/" -> 9
      [] t = "example.com/" -> 12
      [] t = "v=" -> 2
      [] t = "t=" -> 2
      [] OTHER -> 1

RECURSIVE UrlLen(_)
UrlLen(u) == IF u = <<>> THEN 0 ELSE TokenLen(Head(u)) + UrlLen(Tail(u))

\* Tokens matching [A-Za-z0-9_-]
IsIdChar(t) == t \in {"A", "B", "9", "_", "-"}

\* Characters the capture group [^&\n?#]+ stops at.
GroupStops == {"&", "\n", "?", "#"}

\* The ValueError raised when nothing matches.
NoMatch == <<>>

\* len(video_url) == 11 and re.match(r'^[A-Za-z0-9_-]{11}$', video_url)
IsBareId(u) == UrlLen(u) = 11 /\ \A i \in 1..Len(u) : IsIdChar(u[i])

\* End of the maximal run of non-stop tokens starting at position i
\* (i - 1 when the run is empty).
RECURSIVE GroupEnd(_, _)
GroupEnd(u, i) ==
    IF i > Len(u) \/ u[i] \in GroupStops THEN i - 1 ELSE GroupEnd(u, i + 1)

GroupNonEmpty(u, i) == i <= Len(u) /\ u[i] \notin GroupStops

\* Position where the capture group starts when the pattern matches at
\* position i, 0 when it does not.  The alternatives are tried in the order
\* of the pattern; `watch\?.*v=` is greedy, so it takes the last v= that is
\* followed by a non-empty group and is not separated from watch? by a
\* newline.  The sixth alternative (watch\?.*&v=) matches only where the
\* fifth already does.
GroupStart(u, i) ==
    LET at(k) == IF k <= Len(u) THEN u[k] ELSE ""
        later == {j \in (i + 2)..Len(u) :
                     /\ u[j] = "v="
                     /\ GroupNonEmpty(u, j + 1)
                     /\ \A k \in (i + 2)..(j - 1) : u[k] # "\n"}
    IN  IF at(i) = "youtube.com/watch" /\ at(i + 1) = "?" /\ at(i + 2) = "v="
           /\ GroupNonEmpty(u, i + 3)
        THEN i + 3
        ELSE IF at(i) \in {"youtu.be/", "youtube.com/embed/", "youtube.com/v/"}
                /\ GroupNonEmpty(u, i + 1)
        THEN i + 1
        ELSE IF at(i) = "youtube.com/watch" /\ at(i + 1) = "?" /\ later # {}
        THEN SetMax(later) + 1
        ELSE 0

\* The URL has one of the shapes _extract_video_id knows.
KnownShape(u) == IsBareId(u) \/ \E i \in 1..Len(u) : GroupStart(u, i) # 0

ExtractVideoIdNoRaise(u) ==
    IF IsBareId(u) THEN u
    ELSE LET hits == {i \in 1..Len(u) : GroupStart(u, i) # 0}
         IN  IF hits = {} THEN u
             ELSE LET s == GroupStart(u, SetMin(hits))
                  IN  SubSeq(u, s, GroupEnd(u, s))

ExtractVideoId(u) ==
    IF IsBareId(u) THEN u
    ELSE LET hits == {i \in 1..Len(u) : GroupStart(u, i) # 0}
         IN  IF hits = {} THEN NoMatch
             ELSE LET s == GroupStart(u, SetMin(hits))
                  IN  SubSeq(u, s, GroupEnd(u, s))

\* The URLs requests are made with.
Urls == {
    <<"https://www.", "youtube.com/watch", "?", "t=", "9", "&", "v=", "A", "#", "9">>,
    <<"https://", "youtu.be/", "B", "?", "t=", "9">>,
    <<"https://", "example.com/", "A">>,
    <<"https://www.", "youtube.com/watch", "?", "v=">>
}

VideoIds == {ExtractVideoId(u) : u \in Urls} \ {NoMatch}

(***************************************************************************)
(* content_processor.process_transcript: count_tokens and chunk_by_tokens  *)
(***************************************************************************)
Chars == {"a", "b", " "}

Whitespace == {" "}

\* Every text of at most MaxTextLen characters.
Texts == UNION {[1..n -> Chars] : n \in 0..MaxTextLen}

\* len(encoding.encode(text)): the tokenizer is an external library; it is
\* represented by one token per cpt characters, rounded up.
CountTokens(s) == (Len(s) + cpt - 1) \div cpt

\* Length of the leading run of non-whitespace characters of s.
RECURSIVE WordLen(_)
WordLen(s) ==
    IF s = <<>> \/ Head(s) \in Whitespace THEN 0 ELSE 1 + WordLen(Tail(s))

\* str.split(): the whitespace-separated words, none of them empty.
RECURSIVE Split(_)
Split(s) ==
    IF s = <<>> THEN <<>>
    ELSE IF Head(s) \in Whitespace THEN Split(Tail(s))
    ELSE <<SubSeq(s, 1, WordLen(s))>>
           \o Split(SubSeq(s, WordLen(s) + 1, Len(s)))

\* " ".join(parts)
RECURSIVE Join(_)
Join(parts) ==
    IF parts = <<>> THEN <<>>
    ELSE IF Len(parts) = 1 THEN parts[1]
    ELSE parts[1] \o <<" ">> \o Join(Tail(parts))

\* re.sub(r'\s+', ' ', s)
RECURSIVE Collapse(_)
Collapse(s) ==
    IF s = <<>> THEN <<>>
    ELSE IF Head(s) \in Whitespace
    THEN IF Len(s) > 1 /\ s[2] \in Whitespace
         THEN Collapse(Tail(s))
         ELSE <<" ">> \o Collapse(Tail(s))
    ELSE <<Head(s)>> \o Collapse(Tail(s))

\* str.strip()
RECURSIVE Strip(_)
Strip(s) ==
    IF s = <<>> THEN <<>>
    ELSE IF Head(s) \in Whitespace THEN Strip(Tail(s))
    ELSE IF s[Len(s)] \in Whitespace THEN Strip(SubSeq(s, 1, Len(s) - 1))
    ELSE s

\* Whitespace normalisation as _clean_transcript does it.
Normalize(s) == Strip(Collapse(s))

\* The running estimate of a list of words: the sum of
\* count_tokens(word + " ") over them.
RECURSIVE SumWordTokens(_)
SumWordTokens(words) ==
    IF words = <<>> THEN 0
    ELSE CountTokens(Head(words) \o <<" ">>) + SumWordTokens(Tail(words))

\* Faulty variant: the running estimate restarts at zero, without the word
\* that opens the new chunk.
RECURSIVE ChunkLoopNoReset(_, _, _, _, _)
ChunkLoopNoReset(words, done, current_chunk, current_tokens, budget) ==
    IF words = <<>>
    THEN IF current_chunk # <<>> THEN Append(done, Join(current_chunk))
         ELSE done
    ELSE LET word == Head(words)
             word_tokens == CountTokens(word \o <<" ">>)
         IN  IF current_tokens + word_tokens > budget
             THEN ChunkLoopNoReset(Tail(words),
                                   Append(done, Join(current_chunk)),
                                   <<word>>, 0, budget)
             ELSE ChunkLoopNoReset(Tail(words), done,
                                   Append(current_chunk, word),
                                   current_tokens + word_tokens, budget)

\* Faulty variant: the word that closes a chunk is not carried over.
RECURSIVE ChunkLoopDropping(_, _, _, _, _)
ChunkLoopDropping(words, done, current_chunk, current_tokens, budget) ==
    IF words = <<>>
    THEN IF current_chunk # <<>> THEN Append(done, Join(current_chunk))
         ELSE done
    ELSE LET word == Head(words)
             word_tokens == CountTokens(word \o <<" ">>)
         IN  IF current_tokens + word_tokens > budget
             THEN ChunkLoopDropping(Tail(words),
                                    Append(done, Join(current_chunk)),
                                    <<>>, 0, budget)
             ELSE ChunkLoopDropping(Tail(words), done,
                                    Append(current_chunk, word),
                                    current_tokens + word_tokens, budget)

\* The for loop of chunk_by_tokens and the flush after it.
RECURSIVE ChunkLoop(_, _, _, _, _)
ChunkLoop(words, done, current_chunk, current_tokens, budget) ==
    IF words = <<>>
    THEN IF current_chunk # <<>> THEN Append(done, Join(current_chunk))
         ELSE done
    ELSE LET word == Head(words)
             word_tokens == CountTokens(word \o <<" ">>)
         IN  IF current_tokens + word_tokens > budget
             THEN ChunkLoop(Tail(words), Append(done, Join(current_chunk)),
                            <<word>>, word_tokens, budget)
             ELSE ChunkLoop(Tail(words), done, Append(current_chunk, word),
                            current_tokens + word_tokens, budget)

\* Faulty variant: a text within the budget is split and rejoined as well.
ChunkByTokensAlwaysSplit(s, budget) ==
    ChunkLoop(Split(s), <<>>, <<>>, 0, budget)

ChunkByTokens(s, budget) ==
    IF CountTokens(s) <= budget THEN <<s>>
    ELSE ChunkLoop(Split(s), <<>>, <<>>, 0, budget)

(***************************************************************************)
(* AIProcessingService                                                     *)
(***************************************************************************)
SummaryChars == 500        \* summary = transcript[:500]
ChapterChars == 1000       \* chapter slices of 1000 characters
ConclusionChars == 4000    \* a third chapter above 4000 characters
EllipsisLen == 3           \* len("...")
PlaceholderGlossary == 2   \* "Topic 1" and "Topic 2"

\* get_transcript returned None (or an empty string): `not transcript`.
NoTranscript == 0

\* Lengths of the transcripts the transcript source can return.
TranscriptLens == {1500}

\* The remote call raised.
Throws == [bad |-> "throws", summary |-> 0, chapters |-> 0, glossary |-> 0]

\* What ModalProcessor.process_transcript.remote can return: a complete
\* result, and a result one of whose chapters lacks a key the service
\* indexes.
CapableOutputs == {
    [bad |-> "none", summary |-> 40, chapters |-> 3, glossary |-> 3],
    [bad |-> "chapter", summary |-> 40, chapters |-> 3, glossary |-> 3]
}

RemoteOutcomes == {Throws} \cup CapableOutputs

\* _simplified_processing on a transcript of t characters.
SimplifiedProcessing(t) ==
    [bad |-> "none",
     summary |-> MinOf(t, SummaryChars)
                   + (IF t > SummaryChars THEN EllipsisLen ELSE 0),
     chapters |-> 1 + (IF t > ChapterChars THEN 1 ELSE 0)
                    + (IF t > ConclusionChars THEN 1 ELSE 0),
     glossary |-> PlaceholderGlossary]

\* Faulty variant: the remote failure is not caught locally, it reaches the
\* outer handler.
SelectBackendNoFallback(t, remote) ==
    IF use_modal
    THEN IF remote = Throws
         THEN [calls |-> <<"modal">>, out |-> Throws]
         ELSE [calls |-> <<"modal">>, out |-> remote]
    ELSE [calls |-> <<"simplified">>, out |-> SimplifiedProcessing(t)]

\* The backend choice of process_video_content: the backends invoked, in
\* order, and the processed_data they leave.
SelectBackend(t, remote) ==
    IF use_modal
    THEN IF remote = Throws
         THEN [calls |-> <<"modal", "simplified">>,
               out |-> SimplifiedProcessing(t)]
         ELSE [calls |-> <<"modal">>, out |-> remote]
    ELSE [calls |-> <<"simplified">>, out |-> SimplifiedProcessing(t)]

\* The field updates of process_video_content.  They are made in place and
\* in order; an exception (a chapter without "timestamp", say) is caught by
\* the outer handler, which returns video_data as it then is.
ApplyProcessed(vd, t, out) ==
    IF out.bad = "throws" THEN vd
    ELSE IF out.bad = "chapter" THEN [vd EXCEPT !.summary = out.summary]
    ELSE [vd EXCEPT !.summary = out.summary,
                    !.chapters = out.chapters,
                    !.transcript = t,
                    !.glossary = out.glossary]

ProcessVideoContent(vd, t, remote) ==
    IF t = NoTranscript
    THEN [data |-> vd, calls |-> <<>>]
    ELSE LET b == SelectBackend(t, remote)
         IN  [data |-> ApplyProcessed(vd, t, b.out), calls |-> b.calls]

Count(s, x) == Cardinality({i \in 1..Len(s) : s[i] = x})

(***************************************************************************)
(* YouTubeService.get_video_details: the VideoCreate it builds             *)
(***************************************************************************)
NoData ==
    [video_id |-> <<>>, summary |-> 0, chapters |-> 0, glossary |-> 0,
     transcript |-> NoTranscript, status |-> "Draft"]

VideoDetails(u) == [NoData EXCEPT !.video_id = ExtractVideoId(u)]

\* The document insert_one stores for video_data vd.
Stored(vd, oid) ==
    [oid |-> oid, video_id |-> vd.video_id, summary |-> vd.summary,
     chapters |-> vd.chapters, glossary |-> vd.glossary,
     transcript |-> vd.transcript, status |-> vd.status]

\* videos.find({"video_id": v})
DocsFor(v) == {d \in videos : d.video_id = v}

\* processing_status of a document ("absent": the document has no such key).
ProcessingStatus(d) ==
    IF "processing_status" \in DOMAIN d THEN d.processing_status ELSE "absent"

(***************************************************************************)
(* State                                                                   *)
(***************************************************************************)
G0 ==
    [lookups |-> 0, fetches |-> 0, transcripts |-> 0, modal |-> 0,
     simplified |-> 0, inserts |-> 0, updates |-> 0, hit |-> FALSE,
     remoteThrew |-> FALSE, failedAt |-> "",
     raced |-> {}, preds |-> {}]

Finished == {"done", "failed"}

\* Between a missed dedup check and the insert.
InPipeline == {"process", "insert"}

SvcInit ==
    /\ videos = {}
    /\ errors = {}
    /\ nextOid = 1
    /\ started = 0
    /\ use_modal \in BOOLEAN
    /\ pc = [p \in Procs |-> "idle"]
    /\ url = [p \in Procs |-> <<>>]
    /\ vid = [p \in Procs |-> <<>>]
    /\ data = [p \in Procs |-> NoData]
    /\ transcript = [p \in Procs |-> NoTranscript]
    /\ result = [p \in Procs |-> <<>>]
    /\ g = [p \in Procs |-> G0]
    /\ delAfter = [p \in Procs |-> FALSE]
    /\ edits = 0
    /\ faults = 0

ChunkIdle ==
    /\ text = <<>>
    /\ max_tokens = 1
    /\ cpt = 1
    /\ chunks = <<>>
    /\ cpc = "off"

BookIdle ==
    /\ stage = "off"
    /\ chapter_outline = <<>>
    /\ transcript_chunks = 0
    /\ chunk_index = 0
    /\ chapters = <<>>
    /\ glossary = {}
    /\ further_reading = <<>>
    /\ processed_content = <<>>
    /\ prompts = <<>>
    /\ responses = <<>>
    /\ overview_data = <<>>
    /\ llm_calls = <<>>

ApiIdle ==
    /\ clock = 0
    /\ background_tasks = <<>>
    /\ api_log = <<>>

AiIdle ==
    /\ failed_stages = {}
    /\ ai_transcript = NoTranscript
    /\ ai_out = NoData
    /\ ai_pc = "off"
    /\ ai_remote = [bad |-> "none", summary |-> 40, chapters |-> 3,
                    glossary |-> 3]

LoopIdle ==
    /\ task_pc = [t \in Tasks |-> "off"]
    /\ loop_thread = 0

SttIdle ==
    /\ duration_sec = 0
    /\ chunk_ms = 0
    /\ stt_i = 0
    /\ full_transcript = <<>>
    /\ all_segments = <<>>
    /\ stt_calls = <<>>
    /\ stt_pc = "off"
    /\ stt_result = <<>>

ListIdle ==
    /\ catalog = {}
    /\ has_text_index = FALSE
    /\ list_args = <<>>
    /\ list_result = <<>>
    /\ list_pc = "off"

Init ==
    /\ SvcInit /\ ChunkIdle /\ BookIdle /\ ApiIdle /\ AiIdle
    /\ LoopIdle /\ SttIdle /\ ListIdle

(***************************************************************************)
(* VideoService.process_and_save_video                                     *)
(***************************************************************************)
\* Entry: _extract_video_id(video_url); a ValueError leaves through the
\* outer handler, which logs and re-raises.  The two request slots are
\* interchangeable, so the first call of a behaviour is always r1's.
Begin(p, u) ==
    /\ pc[p] \in {"idle"} \cup Finished
    /\ started < MaxCalls
    /\ p = "r1" \/ pc["r1"] # "idle"
    /\ started' = started + 1
    /\ url' = [url EXCEPT ![p] = u]
    /\ vid' = [vid EXCEPT ![p] = ExtractVideoId(u)]
    /\ pc' = [pc EXCEPT ![p] =
                 IF ExtractVideoId(u) = NoMatch THEN "failed" ELSE "lookup"]
    /\ g' = [q \in Procs |->
               IF q = p
               THEN [G0 EXCEPT
                       !.failedAt = IF ExtractVideoId(u) = NoMatch
                                    THEN "identify" ELSE "",
                       !.preds = {r \in Procs \ {p} : pc[r] \in Finished}]
               ELSE [g[q] EXCEPT !.preds = @ \ {p}, !.raced = @ \ {p}]]
    /\ data' = [data EXCEPT ![p] = NoData]
    /\ transcript' = [transcript EXCEPT ![p] = NoTranscript]
    /\ result' = [result EXCEPT ![p] = <<>>]
    /\ delAfter' = [delAfter EXCEPT ![p] = FALSE]
    /\ UNCHANGED <<videos, errors, nextOid, use_modal, edits, faults>>
    /\ UNCHANGED besideSvc

\* Faulty variant: a found document is touched before it is returned.
LookupTouching(p, ok) ==
    /\ pc[p] = "lookup"
    /\ LET found == IF ok THEN DocsFor(vid[p]) ELSE {}
       IN  IF found # {}
           THEN \E d \in found :
                  /\ result' = [result EXCEPT ![p] = <<d>>]
                  /\ videos' = (videos \ {d})
                                 \cup {[d EXCEPT !.status = "Published"]}
                  /\ pc' = [pc EXCEPT ![p] = "done"]
                  /\ g' = [g EXCEPT ![p].lookups = @ + 1, ![p].hit = TRUE,
                                    ![p].updates = @ + 1]
           ELSE /\ pc' = [pc EXCEPT ![p] = "process"]
                /\ g' = [g EXCEPT ![p].lookups = @ + 1]
                /\ UNCHANGED <<result, videos>>
    /\ ok \/ (edits + faults < MaxUpsets /\ DocsFor(vid[p]) # {})
    /\ faults' = IF ok THEN faults ELSE faults + 1
    /\ UNCHANGED <<errors, nextOid, started, use_modal, url, vid,
                   data, transcript, delAfter, edits>>
    /\ UNCHANGED besideSvc

\* Faulty variant: a storage failure during the lookup ends the call.
LookupRaising(p, ok) ==
    /\ pc[p] = "lookup"
    /\ LET found == IF ok THEN DocsFor(vid[p]) ELSE {}
       IN  IF ~ok
           THEN /\ pc' = [pc EXCEPT ![p] = "failed"]
                /\ g' = [g EXCEPT ![p].lookups = @ + 1,
                                  ![p].failedAt = "lookup"]
                /\ UNCHANGED result
           ELSE IF found # {}
           THEN \E d \in found :
                  /\ result' = [result EXCEPT ![p] = <<d>>]
                  /\ pc' = [pc EXCEPT ![p] = "done"]
                  /\ g' = [g EXCEPT ![p].lookups = @ + 1, ![p].hit = TRUE]
           ELSE /\ pc' = [pc EXCEPT ![p] = "process"]
                /\ g' = [g EXCEPT ![p].lookups = @ + 1]
                /\ UNCHANGED result
    /\ ok \/ (edits + faults < MaxUpsets /\ DocsFor(vid[p]) # {})
    /\ faults' = IF ok THEN faults ELSE faults + 1
    /\ UNCHANGED <<videos, errors, nextOid, started, use_modal, url, vid,
                   data, transcript, delAfter, edits>>
    /\ UNCHANGED besideSvc

\* Dedup-Check: get_video_by_youtube_id(video_id).  A storage failure is
\* caught inside it and None is returned (ok = FALSE); it is tried only
\* where a matching document is stored, because elsewhere the call returns
\* None either way.
Lookup(p, ok) ==
    /\ pc[p] = "lookup"
    /\ LET found == IF ok THEN DocsFor(vid[p]) ELSE {}
           racing == {q \in Procs \ {p} :
                         pc[q] \in InPipeline /\ vid[q] = vid[p]}
       IN  IF found # {}
           THEN \E d \in found :
                  /\ result' = [result EXCEPT ![p] = <<d>>]
                  /\ pc' = [pc EXCEPT ![p] = "done"]
                  /\ g' = [g EXCEPT ![p].lookups = @ + 1, ![p].hit = TRUE]
           ELSE /\ pc' = [pc EXCEPT ![p] = "process"]
                /\ g' = [q \in Procs |->
                           IF q = p
                           THEN [g[q] EXCEPT !.lookups = @ + 1,
                                             !.raced = racing]
                           ELSE IF q \in racing
                           THEN [g[q] EXCEPT !.raced = @ \cup {p}]
                           ELSE g[q]]
                /\ UNCHANGED result
    /\ ok \/ (edits + faults < MaxUpsets /\ DocsFor(vid[p]) # {})
    /\ faults' = IF ok THEN faults ELSE faults + 1
    /\ UNCHANGED <<videos, errors, nextOid, started, use_modal, url, vid,
                   data, transcript, delAfter, edits>>
    /\ UNCHANGED besideSvc

\* process_video_url: get_video_details, get_transcript and
\* process_video_content in turn; none of them reads or writes the store.
\* Only get_video_details can raise (fetched = FALSE); get_transcript turns
\* every failure into None and process_video_content returns video_data
\* whatever happens.
ProcessVideoUrl(p, fetched, t, remote) ==
    /\ pc[p] = "process"
    /\ IF fetched
       THEN LET r == ProcessVideoContent(VideoDetails(url[p]), t, remote)
            IN  /\ data' = [data EXCEPT ![p] = r.data]
                /\ transcript' = [transcript EXCEPT ![p] = t]
                /\ pc' = [pc EXCEPT ![p] = "insert"]
                /\ g' = [g EXCEPT
                           ![p].fetches = @ + 1,
                           ![p].transcripts = @ + 1,
                           ![p].modal = @ + Count(r.calls, "modal"),
                           ![p].simplified = @ + Count(r.calls, "simplified"),
                           ![p].remoteThrew =
                               Count(r.calls, "modal") > 0 /\ remote = Throws]
       ELSE /\ pc' = [pc EXCEPT ![p] = "failed"]
            /\ g' = [g EXCEPT ![p].fetches = @ + 1, ![p].failedAt = "fetch"]
            /\ UNCHANGED <<data, transcript>>
    /\ UNCHANGED <<videos, errors, nextOid, started, use_modal, url, vid,
                   result, delAfter, edits, faults>>
    /\ UNCHANGED besideSvc

\* create_video, first await: videos.insert_one(video_data).  The videos
\* collection has no unique index (those of _setup_collections are on
\* books), so the insert fails only when the storage call fails.
Insert(p, ok) ==
    /\ pc[p] = "insert"
    /\ IF ok
       THEN /\ videos' = videos \cup {Stored(data[p], nextOid)}
            /\ nextOid' = nextOid + 1
            /\ result' = [result EXCEPT ![p] = <<Stored(data[p], nextOid)>>]
            /\ pc' = [pc EXCEPT ![p] = "readback"]
            /\ g' = [g EXCEPT ![p].inserts = @ + 1]
            /\ UNCHANGED <<data, transcript>>
       ELSE /\ pc' = [pc EXCEPT ![p] = "failed"]
            /\ g' = [g EXCEPT ![p].failedAt = "insert"]
            /\ data' = [data EXCEPT ![p] = NoData]
            /\ transcript' = [transcript EXCEPT ![p] = NoTranscript]
            /\ UNCHANGED <<videos, nextOid, result>>
    /\ ok \/ edits + faults < MaxUpsets
    /\ faults' = IF ok THEN faults ELSE faults + 1
    /\ UNCHANGED <<errors, started, use_modal, url, vid, delAfter, edits>>
    /\ UNCHANGED besideSvc

\* create_video, second await: videos.find_one({"_id": inserted_id}).  When
\* the document is gone again, indexing None raises.
Readback(p) ==
    /\ pc[p] = "readback"
    /\ LET mine == {d \in videos : d.oid = result[p][1].oid}
       IN  IF mine # {}
           THEN /\ result' = [result EXCEPT ![p] = <<CHOOSE d \in mine : TRUE>>]
                /\ pc' = [pc EXCEPT ![p] = "done"]
                /\ g' = g
           ELSE /\ result' = [result EXCEPT ![p] = <<>>]
                /\ pc' = [pc EXCEPT ![p] = "failed"]
                /\ g' = [g EXCEPT ![p].failedAt = "readback"]
    /\ data' = [data EXCEPT ![p] = NoData]
    /\ transcript' = [transcript EXCEPT ![p] = NoTranscript]
    /\ UNCHANGED <<videos, errors, nextOid, started, use_modal, url, vid,
                   delAfter, edits, faults>>
    /\ UNCHANGED besideSvc

(***************************************************************************)
(* VideoService.update_video and delete_video                              *)
(***************************************************************************)
\* The request bodies tried: any field may be $set, video_id included.
UpdateBodies ==
    {[field |-> "status", value |-> "Published"]}
      \cup {[field |-> "video_id", value |-> v] : v \in VideoIds}

SetField(d, b) ==
    IF b.field = "status" THEN [d EXCEPT !.status = b.value]
    ELSE [d EXCEPT !.video_id = b.value]

UpdateVideo(oid, b) ==
    /\ edits + faults < MaxUpsets
    /\ edits' = edits + 1
    /\ \E d \in videos :
          /\ d.oid = oid
          /\ SetField(d, b) # d
          /\ videos' = (videos \ {d}) \cup {SetField(d, b)}
    /\ UNCHANGED <<errors, nextOid, started, use_modal, pc, url, vid, data,
                   transcript, result, g, delAfter, faults>>
    /\ UNCHANGED besideSvc

DeleteVideo(oid) ==
    /\ edits + faults < MaxUpsets
    /\ edits' = edits + 1
    /\ \E d \in videos :
          /\ d.oid = oid
          /\ videos' = videos \ {d}
    /\ delAfter' = [p \in Procs |-> delAfter[p] \/ pc[p] \in Finished]
    /\ UNCHANGED <<errors, nextOid, started, use_modal, pc, url, vid, data,
                   transcript, result, g, faults>>
    /\ UNCHANGED besideSvc

Oids == 1..MaxCalls

Next ==
    \/ \E p \in Procs, u \in Urls : Begin(p, u)
    \/ \E p \in Procs, ok \in BOOLEAN : Lookup(p, ok)
    \/ \E p \in Procs, f \in BOOLEAN,
          t \in {NoTranscript} \cup TranscriptLens, r \in RemoteOutcomes :
          ProcessVideoUrl(p, f, t, r)
    \/ \E p \in Procs, ok \in BOOLEAN : Insert(p, ok)
    \/ \E p \in Procs : Readback(p)
    \/ \E oid \in Oids, b \in UpdateBodies : UpdateVideo(oid, b)
    \/ \E oid \in Oids : DeleteVideo(oid)

Spec == Init /\ [][Next]_vars

(***************************************************************************)
(* The chunker on its own: every text and budget within the bounds         *)
(***************************************************************************)
\* No request has been made; use_modal is left open.
SvcQuiet ==
    /\ videos = {}
    /\ errors = {}
    /\ nextOid = 1
    /\ started = 0
    /\ pc = [p \in Procs |-> "idle"]
    /\ url = [p \in Procs |-> <<>>]
    /\ vid = [p \in Procs |-> <<>>]
    /\ data = [p \in Procs |-> NoData]
    /\ transcript = [p \in Procs |-> NoTranscript]
    /\ result = [p \in Procs |-> <<>>]
    /\ g = [p \in Procs |-> G0]
    /\ delAfter = [p \in Procs |-> FALSE]
    /\ edits = 0
    /\ faults = 0

SvcIdle == SvcQuiet /\ use_modal = FALSE

ChunkInit ==
    /\ SvcIdle
    /\ LoopIdle /\ SttIdle /\ ListIdle
    /\ BookIdle
    /\ ApiIdle
    /\ AiIdle
    /\ text \in Texts
    /\ max_tokens \in 1..MaxBudget
    /\ cpt \in {1, 2}
    /\ chunks = <<>>
    /\ cpc = "input"

ChunkCall ==
    /\ cpc = "input"
    /\ chunks' = ChunkByTokens(text, max_tokens)
    /\ cpc' = "done"
    /\ UNCHANGED <<text, max_tokens, cpt>>
    /\ UNCHANGED <<svcVars, bookVars, apiVars, aiVars,
                   loopVars, sttVars, listVars>>

ChunkNext == ChunkCall

SpecChunk == ChunkInit /\ [][ChunkNext]_vars

(***************************************************************************)
(* content_processor.process_transcript: outline, chapter loop, glossary,   *)
(* further reading                                                         *)
(***************************************************************************)
MaxOutline == 9        \* longest chapter outline tried
MaxChunks == 4         \* largest number of transcript chunks tried

MaxOf(a, b) == IF a >= b THEN a ELSE b

\* s[a:b] for 0 <= a <= b <= len(s)
Slice(s, a, b) == SubSeq(s, a + 1, b)

\* The (i, total_chunks, len(chapter_outline)) for which the double product
\* progress * len(chapter_outline) * 1.2 comes out just below the integer it
\* equals in exact arithmetic, so that int() yields one less.  Computed with
\* IEEE doubles for every total_chunks <= 7 and outline length <= 12; the
\* product with 0.8 has no such case in that range.
RoundsBelow == {
    <<0, 3, 5>>, <<1, 3, 5>>, <<0, 6, 5>>, <<1, 6, 5>>, <<3, 6, 5>>,
    <<0, 3, 10>>, <<1, 3, 10>>, <<0, 6, 10>>, <<1, 6, 10>>, <<3, 6, 10>>
}

\* int(progress * n * tenths / 10) with progress = (idx + 1) / total
ScaledInt(idx, total, n, tenths) ==
    (((idx + 1) * n * tenths) \div (total * 10))
      - (IF tenths = 12 /\ <<idx, total, n>> \in RoundsBelow THEN 1 ELSE 0)

\* Faulty variant: the first and the last chunk get the computed window
\* like every other chunk.
ChaptersToProcessNoEdges(outline, idx, total) ==
    LET n == Len(outline)
        start_idx == MaxOf(0, MinOf(ScaledInt(idx, total, n, 8), n - 1))
        end_idx == MaxOf(start_idx + 1,
                         MinOf(ScaledInt(idx, total, n, 12) + 1, n))
    IN  IF n <= 3 THEN outline
        ELSE Slice(outline, start_idx, end_idx)

\* chapters_to_process for chunk idx of total.
ChaptersToProcess(outline, idx, total) ==
    LET n == Len(outline)
        start_idx == MaxOf(0, MinOf(ScaledInt(idx, total, n, 8), n - 1))
        end_idx == MaxOf(start_idx + 1,
                         MinOf(ScaledInt(idx, total, n, 12) + 1, n))
    IN  IF n <= 3 THEN outline
        ELSE IF idx = 0 THEN Slice(outline, 0, MinOf(3, n))
        ELSE IF idx = total - 1 THEN Slice(outline, MaxOf(n - 3, 0), n)
        ELSE Slice(outline, start_idx, end_idx)

\* One title -> fragment pair of a chapter response.  A fragment without
\* has_content lacks the "content" key; its lists default to [] when absent.
Fragment(title, has_content, content, key_points, examples, quotes) ==
    [title |-> title, has_content |-> has_content, content |-> content,
     key_points |-> key_points, examples |-> examples, quotes |-> quotes]

CallRaises == [kind |-> "raises", items |-> <<>>]

InvalidJson == [kind |-> "badjson", items |-> <<>>]

\* What the chapter call of one chunk can come back with: the call raising,
\* a body that is not JSON, and three mappings, the last of which has a
\* fragment without "content" between two well-formed ones.
ChapterResponses == {
    CallRaises,
    InvalidJson,
    [kind |-> "json",
     items |-> <<Fragment("Intro", TRUE, <<"a">>, <<"k1">>, <<>>, <<"q1">>)>>],
    [kind |-> "json",
     items |-> <<Fragment("Body", TRUE, <<"b">>, <<"k1">>, <<"e1">>, <<>>),
                 Fragment("Intro", TRUE, <<"c">>, <<"k1">>, <<>>, <<>>)>>],
    [kind |-> "json",
     items |-> <<Fragment("intro", TRUE, <<"d">>, <<>>, <<>>, <<>>),
                 Fragment("Body", FALSE, <<>>, <<"k2">>, <<>>, <<>>),
                 Fragment("Intro", TRUE, <<"e">>, <<"k3">>, <<>>, <<>>)>>]
}

\* The merge loop over chunk_chapters.items().  content["content"] is
\* evaluated before anything is stored, so a fragment without it raises
\* with the list as the earlier fragments of the chunk left it.
RECURSIVE MergeItems(_, _)
MergeItems(chs, items) ==
    IF items = <<>> THEN [chapters |-> chs, raised |-> FALSE]
    ELSE LET it == Head(items)
             hits == {j \in 1..Len(chs) : chs[j].title = it.title}
         IN  IF ~it.has_content THEN [chapters |-> chs, raised |-> TRUE]
             ELSE IF hits # {}
             THEN MergeItems(
                      [chs EXCEPT
                         ![SetMin(hits)].content = @ \o <<"\n\n">> \o it.content,
                         ![SetMin(hits)].key_points = @ \o it.key_points,
                         ![SetMin(hits)].examples = @ \o it.examples,
                         ![SetMin(hits)].quotes = @ \o it.quotes],
                      Tail(items))
             ELSE MergeItems(
                      Append(chs, [title |-> it.title, content |-> it.content,
                                   key_points |-> it.key_points,
                                   examples |-> it.examples,
                                   quotes |-> it.quotes]),
                      Tail(items))

\* The try block of one chunk: the chapter list it leaves.
MergeChunk(chs, resp) ==
    IF resp.kind = "json" THEN MergeItems(chs, resp.items).chapters ELSE chs

\* The chunk's try block ended in its except clause.
ChunkFailed(resp) ==
    resp.kind # "json" \/ \E j \in 1..Len(resp.items) : ~resp.items[j].has_content

BookInit ==
    /\ SvcIdle
    /\ LoopIdle /\ SttIdle /\ ListIdle
    /\ ChunkIdle
    /\ ApiIdle
    /\ AiIdle
    /\ stage = "outline"
    /\ chapter_outline = <<>>
    /\ transcript_chunks = 0
    /\ chunk_index = 0
    /\ chapters = <<>>
    /\ glossary = {}
    /\ further_reading = <<>>
    /\ processed_content = <<>>
    /\ prompts = <<>>
    /\ responses = <<>>
    /\ overview_data = <<>>
    /\ llm_calls = <<>>

\* What the overview call can come back with: the call raises, the content
\* is not valid JSON, or the content is a JSON object holding some of the
\* keys the later stages read.
OverviewKeys == {"summary", "chapter_outline", "key_themes"}

OverviewKeySets ==
    {OverviewKeys, {"chapter_outline"}, {"summary", "key_themes"}, {}}

OverviewResponses ==
    {[kind |-> "raises", keys |-> {}], [kind |-> "invalid", keys |-> {}]}
    \cup {[kind |-> "json", keys |-> K] : K \in OverviewKeySets}

\* overview_data.get(key, default) of lines 113, 309 and 313.
OverviewGet(od, key, present, default) ==
    IF key \in od[1] THEN present ELSE default

\* One completion call in the log of calls made.
LlmCall(st, ok) == [stage |-> st, ok |-> ok]

\* Faulty variant: a failed overview carries on with an empty outline.
PtOutlineSwallowing(resp, n, k) ==
    /\ stage = "outline"
    /\ llm_calls' = Append(llm_calls, LlmCall("overview", resp.kind = "json"))
    /\ overview_data' = <<resp.keys>>
    /\ chapter_outline' = OverviewGet(<<resp.keys>>, "chapter_outline",
                                      [j \in 1..n |-> j - 1], <<>>)
    /\ transcript_chunks' = k
    /\ stage' = IF k = 0 THEN "glossary" ELSE "chapters"
    /\ UNCHANGED <<chunk_index, chapters, glossary, further_reading,
                   processed_content, prompts, responses>>
    /\ UNCHANGED <<svcVars, chunkVars, apiVars, aiVars,
                   loopVars, sttVars, listVars>>

\* Stage 1 and the chunking of line 117.  A failing overview call or an
\* unparseable overview reaches the outer handler, which re-raises.
PtOutline(resp, n, k) ==
    /\ stage = "outline"
    /\ llm_calls' = Append(llm_calls, LlmCall("overview", resp.kind = "json"))
    /\ IF resp.kind = "json"
       THEN /\ overview_data' = <<resp.keys>>
            /\ chapter_outline' = OverviewGet(<<resp.keys>>, "chapter_outline",
                                              [j \in 1..n |-> j - 1], <<>>)
            /\ transcript_chunks' = k
            /\ stage' = IF k = 0 THEN "glossary" ELSE "chapters"
       ELSE /\ stage' = "raised"
            /\ UNCHANGED <<overview_data, chapter_outline, transcript_chunks>>
    /\ UNCHANGED <<chunk_index, chapters, glossary, further_reading,
                   processed_content, prompts, responses>>
    /\ UNCHANGED <<svcVars, chunkVars, apiVars, aiVars,
                   loopVars, sttVars, listVars>>

\* Faulty variant: a failing chunk ends the run.
PtChapterChunkAborting(resp) ==
    /\ stage = "chapters"
    /\ chunk_index < transcript_chunks
    /\ prompts' = Append(prompts, ChaptersToProcess(chapter_outline,
                                                    chunk_index,
                                                    transcript_chunks))
    /\ responses' = Append(responses, resp)
    /\ llm_calls' = Append(llm_calls, LlmCall("chapter", ~ChunkFailed(resp)))
    /\ chapters' = MergeChunk(chapters, resp)
    /\ chunk_index' = chunk_index + 1
    /\ stage' = IF ChunkFailed(resp) THEN "raised"
                ELSE IF chunk_index + 1 = transcript_chunks THEN "glossary"
                ELSE "chapters"
    /\ UNCHANGED <<chapter_outline, transcript_chunks, glossary,
                   further_reading, processed_content, overview_data>>
    /\ UNCHANGED <<svcVars, chunkVars, apiVars, aiVars,
                   loopVars, sttVars, listVars>>

\* One iteration of the chapter loop: the window, the call, the merge.  The
\* except clause of the chunk only logs; after the last chunk the run is at
\* the glossary stage.
PtChapterChunk(resp) ==
    /\ stage = "chapters"
    /\ chunk_index < transcript_chunks
    /\ prompts' = Append(prompts, ChaptersToProcess(chapter_outline,
                                                    chunk_index,
                                                    transcript_chunks))
    /\ responses' = Append(responses, resp)
    /\ llm_calls' = Append(llm_calls, LlmCall("chapter", ~ChunkFailed(resp)))
    /\ chapters' = MergeChunk(chapters, resp)
    /\ chunk_index' = chunk_index + 1
    /\ stage' = IF chunk_index + 1 = transcript_chunks THEN "glossary"
                ELSE "chapters"
    /\ UNCHANGED <<chapter_outline, transcript_chunks, glossary,
                   further_reading, processed_content, overview_data>>
    /\ UNCHANGED <<svcVars, chunkVars, apiVars, aiVars,
                   loopVars, sttVars, listVars>>

\* Faulty variant: a failing glossary stage reaches the outer handler.
PtGlossaryRaising(ok) ==
    /\ stage = "glossary"
    /\ llm_calls' = Append(llm_calls, LlmCall("glossary", ok))
    /\ glossary' = IF ok THEN {"term"} ELSE {}
    /\ stage' = IF ok THEN "further" ELSE "raised"
    /\ UNCHANGED <<chapter_outline, transcript_chunks, chunk_index, chapters,
                   further_reading, processed_content, prompts, responses,
                   overview_data>>
    /\ UNCHANGED <<svcVars, chunkVars, apiVars, aiVars,
                   loopVars, sttVars, listVars>>

\* Stage 3: the glossary, {} when the call or the parse fails.
PtGlossary(ok) ==
    /\ stage = "glossary"
    /\ llm_calls' = Append(llm_calls, LlmCall("glossary", ok))
    /\ glossary' = IF ok THEN {"term"} ELSE {}
    /\ stage' = "further"
    /\ UNCHANGED <<chapter_outline, transcript_chunks, chunk_index, chapters,
                   further_reading, processed_content, prompts, responses,
                   overview_data>>
    /\ UNCHANGED <<svcVars, chunkVars, apiVars, aiVars,
                   loopVars, sttVars, listVars>>

\* The document of lines 306-322, as far as the stages decide it.
AssembleDocument(od, chs, gl, fr) ==
    [summary |-> OverviewGet(od, "summary", "overview", ""),
     chapters |-> chs,
     glossary |-> gl,
     further_reading |-> fr,
     key_themes |-> OverviewGet(od, "key_themes", <<"theme">>, <<>>)]

\* Stage 4 and the assembly of processed_content.
PtFurtherReading(ok) ==
    /\ stage = "further"
    /\ llm_calls' = Append(llm_calls, LlmCall("further", ok))
    /\ further_reading' = IF ok THEN <<"book">> ELSE <<>>
    /\ processed_content' =
          <<AssembleDocument(overview_data, chapters, glossary,
                             IF ok THEN <<"book">> ELSE <<>>)>>
    /\ stage' = "returned"
    /\ UNCHANGED <<chapter_outline, transcript_chunks, chunk_index, chapters,
                   glossary, prompts, responses, overview_data>>
    /\ UNCHANGED <<svcVars, chunkVars, apiVars, aiVars,
                   loopVars, sttVars, listVars>>

BookNext ==
    \/ \E resp \in OverviewResponses, n \in 0..MaxOutline, k \in 0..MaxChunks :
          PtOutline(resp, n, k)
    \/ \E resp \in ChapterResponses : PtChapterChunk(resp)
    \/ \E ok \in BOOLEAN : PtGlossary(ok)
    \/ \E ok \in BOOLEAN : PtFurtherReading(ok)

SpecBook == BookInit /\ [][BookNext]_vars

(***************************************************************************)
(* main.py: POST /process                                                  *)
(***************************************************************************)
MaxPosts == 3          \* POST /process requests per behaviour
MaxClock == 3          \* seconds the clock runs for

\* The methods class VideoService defines; it has no __getattr__.
VideoServiceMethods == {
    "process_video_url", "create_video", "get_video_by_id",
    "get_video_by_youtube_id", "get_videos", "update_video", "delete_video",
    "process_and_save_video"
}

ApiInit ==
    /\ SvcIdle
    /\ LoopIdle /\ SttIdle /\ ListIdle
    /\ ChunkIdle
    /\ BookIdle
    /\ AiIdle
    /\ ApiIdle

\* A second passes.
ApiTick ==
    /\ clock < MaxClock
    /\ clock' = clock + 1
    /\ UNCHANGED <<background_tasks, api_log>>
    /\ UNCHANGED <<svcVars, chunkVars, bookVars, aiVars,
                   loopVars, sttVars, listVars>>

\* The handler of POST /process.  Evaluating video_service.process_video,
\* the first argument of add_task, is an attribute lookup on the
\* VideoService instance; when it raises, the except of line 85 answers 500
\* and add_task has not been called.
PostProcess(u) ==
    /\ Len(api_log) < MaxPosts
    /\ IF "process_video" \in VideoServiceMethods
       THEN /\ background_tasks' =
                  Append(background_tasks,
                         [func |-> "process_video", arg |-> u])
            /\ api_log' = Append(api_log,
                                 [url |-> u, code |-> 200,
                                  status |-> "pending",
                                  task_id |-> <<"task-", clock>>])
       ELSE /\ api_log' = Append(api_log,
                                 [url |-> u, code |-> 500, status |-> "",
                                  task_id |-> <<>>])
            /\ UNCHANGED background_tasks
    /\ UNCHANGED clock
    /\ UNCHANGED <<svcVars, chunkVars, bookVars, aiVars,
                   loopVars, sttVars, listVars>>

ApiNext ==
    \/ ApiTick
    \/ \E u \in Urls : PostProcess(u)

SpecApi == ApiInit /\ [][ApiNext]_vars

(***************************************************************************)
(* ai.py: ModalProcessor.process_transcript behind process_video_content   *)
(***************************************************************************)
\* The five calls of ModalProcessor.process_transcript, in order.
ModalStages == {"summary", "categorization", "chapters", "takeaways",
                "glossary"}

\* What the remote call returns when every stage succeeds and every
\* chapter carries the keys process_video_content reads.
CapableComplete == CHOOSE o \in CapableOutputs : o.bad = "none"

\* ModalProcessor.process_transcript: no stage is wrapped in a try, so the
\* first failing call or json.loads raises out of the method.
ModalProcessTranscript(failed, assembled) ==
    IF failed # {} THEN Throws ELSE assembled

\* Transcript lengths on both sides of the slicing offsets of
\* _simplified_processing.
AiTranscriptLens == {400, 1500, 4500}

AiInit ==
    /\ SvcQuiet
    /\ LoopIdle /\ SttIdle /\ ListIdle
    /\ use_modal \in BOOLEAN
    /\ ChunkIdle
    /\ BookIdle
    /\ ApiIdle
    /\ failed_stages \in SUBSET ModalStages
    /\ ai_transcript \in {NoTranscript} \cup AiTranscriptLens
    /\ ai_out = NoData
    /\ ai_pc = "input"
    /\ ai_remote \in CapableOutputs

\* process_video_content(video_data, transcript) for the video of URL u.
AiCall(u) ==
    /\ ai_pc = "input"
    /\ ai_out' = ProcessVideoContent(
                     VideoDetails(u), ai_transcript,
                     ModalProcessTranscript(failed_stages, ai_remote)).data
    /\ ai_pc' = "done"
    /\ UNCHANGED <<failed_stages, ai_transcript, ai_remote>>
    /\ UNCHANGED <<svcVars, chunkVars, bookVars, apiVars,
                   loopVars, sttVars, listVars>>

AiNext == \E u \in {w \in Urls : KnownShape(w)} : AiCall(u)

SpecAI == AiInit /\ [][AiNext]_vars

(***************************************************************************)
(* The event loop serving process_and_save_video                           *)
(*                                                                         *)
(* Each request is a coroutine run as a task of one event loop.  A task    *)
(* runs on the loop's thread from where it was resumed to its next await   *)
(* that suspends; the storage calls are awaited motor calls and suspend,   *)
(* while processor.process_transcript.remote(...) is called without await  *)
(* and returns only when the backend has answered.                         *)
(***************************************************************************)
\* Waiting on an awaited storage call, and resumable once it has replied.
IoWaits == {"lookup_io", "insert_io", "readback_io"}

Runnable == {"start", "lookup_ready", "insert_ready", "readback_ready"}

LoopInit ==
    /\ SvcIdle
    /\ ChunkIdle /\ BookIdle /\ ApiIdle /\ AiIdle /\ SttIdle /\ ListIdle
    /\ task_pc = [t \in Tasks |-> "start"]
    /\ loop_thread = 0

LoopFrame ==
    UNCHANGED <<svcVars, chunkVars, bookVars, apiVars, aiVars, sttVars,
                listVars>>

\* The task is started: _extract_video_id, then the await of find_one in
\* get_video_by_youtube_id suspends it.
LoopStart(t) ==
    /\ loop_thread = 0
    /\ task_pc[t] = "start"
    /\ task_pc' = [task_pc EXCEPT ![t] = "lookup_io"]
    /\ UNCHANGED loop_thread
    /\ LoopFrame

\* The store answers an awaited call; the task can be resumed.
StorageReplies(t) ==
    /\ task_pc[t] \in IoWaits
    /\ task_pc' = [task_pc EXCEPT ![t] =
                      CASE task_pc[t] = "lookup_io" -> "lookup_ready"
                        [] task_pc[t] = "insert_io" -> "insert_ready"
                        [] OTHER -> "readback_ready"]
    /\ UNCHANGED loop_thread
    /\ LoopFrame

\* Resumed after the lookup.  A hit returns.  A miss runs process_video_url
\* on the loop's thread: with a transcript and use_modal on (capable) it
\* enters the remote call, which does not give the thread back; otherwise it
\* reaches the await of insert_one.
LoopAfterLookup(t, hit, capable) ==
    /\ loop_thread = 0
    /\ task_pc[t] = "lookup_ready"
    /\ IF hit
       THEN /\ task_pc' = [task_pc EXCEPT ![t] = "done"]
            /\ UNCHANGED loop_thread
       ELSE IF capable
       THEN /\ task_pc' = [task_pc EXCEPT ![t] = "remote"]
            /\ loop_thread' = t
       ELSE /\ task_pc' = [task_pc EXCEPT ![t] = "insert_io"]
            /\ UNCHANGED loop_thread
    /\ LoopFrame

\* The backend answers: the fields are applied and the await of insert_one
\* in create_video suspends the task, freeing the thread.
RemoteReturns(t) ==
    /\ task_pc[t] = "remote"
    /\ loop_thread = t
    /\ task_pc' = [task_pc EXCEPT ![t] = "insert_io"]
    /\ loop_thread' = 0
    /\ LoopFrame

\* Resumed after insert_one: the await of find_one suspends the task.
LoopAfterInsert(t) ==
    /\ loop_thread = 0
    /\ task_pc[t] = "insert_ready"
    /\ task_pc' = [task_pc EXCEPT ![t] = "readback_io"]
    /\ UNCHANGED loop_thread
    /\ LoopFrame

\* Resumed after the read-back: the saved document is returned.
LoopAfterReadback(t) ==
    /\ loop_thread = 0
    /\ task_pc[t] = "readback_ready"
    /\ task_pc' = [task_pc EXCEPT ![t] = "done"]
    /\ UNCHANGED loop_thread
    /\ LoopFrame

\* A step of task t on the loop's thread.
TaskStep(t) ==
    \/ LoopStart(t)
    \/ \E hit \in BOOLEAN, capable \in BOOLEAN : LoopAfterLookup(t, hit, capable)
    \/ LoopAfterInsert(t)
    \/ LoopAfterReadback(t)

LoopNext ==
    \E t \in Tasks :
       \/ LoopStart(t)
       \/ StorageReplies(t)
       \/ \E hit \in BOOLEAN, capable \in BOOLEAN :
             LoopAfterLookup(t, hit, capable)
       \/ RemoteReturns(t)
       \/ LoopAfterInsert(t)
       \/ LoopAfterReadback(t)

SpecLoop == LoopInit /\ [][LoopNext]_vars

(***************************************************************************)
(* speech_to_text.py: transcribe_audio                                     *)
(*                                                                         *)
(* The audio is its duration; full_transcript is the sequence of the       *)
(* strings += appended to it; a response that carries segments carries one *)
(* segment, at the start of its chunk.                                     *)
(***************************************************************************)
MaxAudioSec == 1000

ShortAudioLimit == 600

MinChunkMs == 60000

MaxChunkMs == 600000

ErrorPlaceholder == " [Error transcribing this section]"

\* ErrorPlaceholder with its leading blank stripped.
ErrorBody == "[Error transcribing this section]"

AudioSeconds == {ShortAudioLimit - 1, ShortAudioLimit, MaxAudioSec}

\* chunk_ms before the clamp of line 86.
RawChunkMs == {250000, 900000}

\* What a transcription call does: a response with segments, a response
\* without the attribute, or an exception.
SttOutcomes == {"ok", "ok_bare", "fails"}

\* len(chunks) of the split of lines 91-96: range(0, len(audio), chunk_ms).
NumChunks == (duration_sec * 1000 + chunk_ms - 1) \div chunk_ms

\* chunk_offset of line 119, in seconds.
ChunkOffset(i) == (i * chunk_ms) \div 1000

SegmentAt(offset) == [start |-> offset, end |-> offset + 1]

\* str.strip() on the joined pieces.
RECURSIVE DropBlanks(_)
DropBlanks(ft) ==
    IF ft = <<>> THEN <<>>
    ELSE IF Head(ft) = " " THEN DropBlanks(Tail(ft))
    ELSE IF Head(ft) = ErrorPlaceholder THEN <<ErrorBody>> \o Tail(ft)
    ELSE ft

RECURSIVE DropTrailingBlanks(_)
DropTrailingBlanks(ft) ==
    IF ft = <<>> THEN <<>>
    ELSE IF ft[Len(ft)] = " " THEN DropTrailingBlanks(SubSeq(ft, 1, Len(ft) - 1))
    ELSE ft

StripTranscript(ft) == DropTrailingBlanks(DropBlanks(ft))

SttInit ==
    /\ SvcIdle
    /\ ChunkIdle /\ BookIdle /\ ApiIdle /\ AiIdle /\ LoopIdle /\ ListIdle
    /\ duration_sec \in AudioSeconds
    /\ chunk_ms \in {MaxOf(MinChunkMs, MinOf(c, MaxChunkMs)) : c \in RawChunkMs}
    /\ stt_i = 0
    /\ full_transcript = <<>>
    /\ all_segments = <<>>
    /\ stt_calls = <<>>
    /\ stt_pc = "input"
    /\ stt_result = <<>>

SttFrame ==
    UNCHANGED <<svcVars, chunkVars, bookVars, apiVars, aiVars, loopVars,
                listVars>>

\* Audio under ten minutes: one call outside any try; its exception leaves
\* the function.
SttSingle(o) ==
    /\ stt_pc = "input"
    /\ duration_sec < ShortAudioLimit
    /\ stt_calls' = Append(stt_calls, [chunk |-> 0, ok |-> o # "fails"])
    /\ IF o = "fails"
       THEN /\ stt_pc' = "raised"
            /\ UNCHANGED stt_result
       ELSE /\ stt_pc' = "returned"
            /\ stt_result' =
                  <<[transcript |-> <<"t">>,
                     segments |-> IF o = "ok" THEN <<SegmentAt(0)>> ELSE <<>>]>>
    /\ UNCHANGED <<duration_sec, chunk_ms, stt_i, full_transcript,
                   all_segments>>
    /\ SttFrame

\* Longer audio: the split into chunks, lines 81-102.
SttSplit ==
    /\ stt_pc = "input"
    /\ duration_sec >= ShortAudioLimit
    /\ stt_pc' = "loop"
    /\ UNCHANGED <<duration_sec, chunk_ms, stt_i, full_transcript,
                   all_segments, stt_calls, stt_result>>
    /\ SttFrame

\* Faulty variant: a failing chunk leaves no trace in the transcript.
SttChunkSilent(o) ==
    /\ stt_pc = "loop"
    /\ stt_i < NumChunks
    /\ stt_calls' = Append(stt_calls, [chunk |-> stt_i, ok |-> o # "fails"])
    /\ IF o = "fails"
       THEN UNCHANGED <<full_transcript, all_segments>>
       ELSE /\ full_transcript' = full_transcript \o <<" ", "t">>
            /\ all_segments' =
                  all_segments \o (IF o = "ok"
                                   THEN <<SegmentAt(ChunkOffset(stt_i))>>
                                   ELSE <<>>)
    /\ stt_i' = stt_i + 1
    /\ UNCHANGED <<duration_sec, chunk_ms, stt_pc, stt_result>>
    /\ SttFrame

\* One iteration of the chunk loop, lines 104-135.
SttChunk(o) ==
    /\ stt_pc = "loop"
    /\ stt_i < NumChunks
    /\ stt_calls' = Append(stt_calls, [chunk |-> stt_i, ok |-> o # "fails"])
    /\ IF o = "fails"
       THEN /\ full_transcript' = Append(full_transcript, ErrorPlaceholder)
            /\ UNCHANGED all_segments
       ELSE /\ full_transcript' = full_transcript \o <<" ", "t">>
            /\ all_segments' =
                  all_segments \o (IF o = "ok"
                                   THEN <<SegmentAt(ChunkOffset(stt_i))>>
                                   ELSE <<>>)
    /\ stt_i' = stt_i + 1
    /\ UNCHANGED <<duration_sec, chunk_ms, stt_pc, stt_result>>
    /\ SttFrame

\* The return of lines 138-142.
SttReturn ==
    /\ stt_pc = "loop"
    /\ stt_i = NumChunks
    /\ stt_result' = <<[transcript |-> StripTranscript(full_transcript),
                        segments |-> all_segments]>>
    /\ stt_pc' = "returned"
    /\ UNCHANGED <<duration_sec, chunk_ms, stt_i, full_transcript,
                   all_segments, stt_calls>>
    /\ SttFrame

SttNext ==
    \/ \E o \in SttOutcomes : SttSingle(o)
    \/ SttSplit
    \/ \E o \in SttOutcomes : SttChunk(o)
    \/ SttReturn

SpecStt == SttInit /\ [][SttNext]_vars

(***************************************************************************)
(* video.py: get_videos                                                    *)
(*                                                                         *)
(* A document is what get_videos and its query read of it: its _id, the    *)
(* categories and tags of library_data, created_at, and its text score for *)
(* the one search text "q" (0: the text does not match it).  An optional   *)
(* argument is <<>> for None and <<value>> otherwise.                      *)
(***************************************************************************)
MaxSkip == 1

MaxLimit == 2

Doc(id, cats, tgs, created, sc) ==
    [id |-> id, categories |-> cats, tags |-> tgs, created_at |-> created,
     score |-> sc]

\* Two documents share created_at and two share the text score.
DocUniverse == {
    Doc(1, {"c1"}, {"t1", "t2"}, 1, 2),
    Doc(2, {"c2"}, {"t1"}, 2, 1),
    Doc(3, {"c1"}, {}, 2, 0),
    Doc(4, {"c1", "c2"}, {"t2"}, 3, 2)
}

ListArgs ==
    [skip : 0..MaxSkip,
     limit : 0..MaxLimit,
     category : {<<>>, <<"">>, <<"c1">>},
     tags : {<<>>, <<{}>>, <<{"t1"}>>, <<{"t1", "t2"}>>},
     search : {<<>>, <<"">>, <<"q">>}]

\* Python truth of an optional string argument and of an optional list.
TruthyText(arg) == arg # <<>> /\ arg[1] # ""

TruthyList(arg) == arg # <<>> /\ arg[1] # {}

\* The query dict of lines 154-160.
MatchesQuery(d, args) ==
    /\ TruthyText(args.category) => args.category[1] \in d.categories
    /\ TruthyList(args.tags) => args.tags[1] \subseteq d.tags

\* Faulty variant: the text search is combined with the filters.
MatchingFiltered(docs, args) ==
    IF TruthyText(args.search)
    THEN {d \in docs : d.score > 0 /\ MatchesQuery(d, args)}
    ELSE {d \in docs : MatchesQuery(d, args)}

\* The documents the cursor of lines 162-170 ranges over.
Matching(docs, args) ==
    IF TruthyText(args.search)
    THEN {d \in docs : d.score > 0}
    ELSE {d \in docs : MatchesQuery(d, args)}

\* The key the cursor is sorted by, descending: the text score, or
\* created_at.
SortKey(d, args) == IF TruthyText(args.search) THEN d.score ELSE d.created_at

\* Every order the sort can return: documents with equal keys come in any
\* order.
Orderings(docs, args) ==
    {o \in [1..Cardinality(docs) -> docs] :
        /\ \A i, j \in DOMAIN o : i # j => o[i] # o[j]
        /\ \A i, j \in DOMAIN o :
              i < j => SortKey(o[i], args) >= SortKey(o[j], args)}

\* cursor.skip(skip).limit(limit); a limit of 0 is no limit.
Page(o, skip, limit) ==
    SubSeq(o, skip + 1,
           IF limit = 0 THEN Len(o) ELSE MinOf(Len(o), skip + limit))

\* str(video["_id"])
IdString(id) == <<"str", id>>

Returned(o) == [i \in DOMAIN o |-> [o[i] EXCEPT !.id = IdString(@)]]

ListInit ==
    /\ SvcIdle
    /\ ChunkIdle /\ BookIdle /\ ApiIdle /\ AiIdle /\ LoopIdle /\ SttIdle
    /\ catalog \in SUBSET DocUniverse
    /\ has_text_index \in BOOLEAN
    /\ list_args \in {<<a>> : a \in ListArgs}
    /\ list_result = <<>>
    /\ list_pc = "input"

\* get_videos(skip, limit, category, tags, search).  A $text query on a
\* collection without a text index fails like any storage failure
\* (ok = FALSE), and the handler of lines 184-186 returns [].
GetVideos(ok) ==
    /\ list_pc = "input"
    /\ LET args == list_args[1]
       IN  IF ~ok \/ (TruthyText(args.search) /\ ~has_text_index)
           THEN list_result' = <<<<>>>>
           ELSE \E o \in Orderings(Matching(catalog, args), args) :
                   list_result' = <<Returned(Page(o, args.skip, args.limit))>>
    /\ list_pc' = "done"
    /\ UNCHANGED <<catalog, has_text_index, list_args>>
    /\ UNCHANGED <<svcVars, chunkVars, bookVars, apiVars, aiVars, loopVars,
                   sttVars>>

ListNext == \E ok \in BOOLEAN : GetVideos(ok)

SpecList == ListInit /\ [][ListNext]_vars

TypeOK ==
    /\ \A d \in videos : d.oid \in Oids
    /\ \A p \in Procs : pc[p] \in {"idle", "lookup", "process", "insert",
                                   "readback", "done", "failed"}

(***************************************************************************)
(* Properties                                                              *)
(***************************************************************************)
\* The counters of a call in which nothing after the dedup check was done.
NoPipelineWork(c) ==
    /\ c.fetches = 0
    /\ c.transcripts = 0
    /\ c.modal = 0
    /\ c.simplified = 0
    /\ c.inserts = 0
    /\ c.updates = 0

\* C1: in every reachable state at most one stored document carries a
\* given source video id.  Stated for the behaviours in which no storage
\* call has failed: process, update and delete calls alone decide it.
C1_UniqueSourceId ==
    faults = 0 => \A v \in VideoIds : Cardinality(DocsFor(v)) <= 1

\* C2: two calls for the same video made one after the other, with no
\* deletion since the first returned, return the same document id; when the
\* first of them found no document, the two calls together ran the pipeline
\* once and inserted once.
C2_SequentialIdempotent ==
    \A p \in Procs : \A q \in g[p].preds :
        (/\ pc[p] = "done"
         /\ pc[q] = "done"
         /\ vid[p] = vid[q]
         /\ ~delAfter[q])
        => /\ result[p][1].oid = result[q][1].oid
           /\ ~g[q].hit => /\ g[p].fetches + g[q].fetches = 1
                           /\ g[p].inserts + g[q].inserts = 1

\* C3: when two requests for the same video id have both passed the dedup
\* check before either persisted, only one insert is accepted and both
\* callers are handed the same document.  Stated for the behaviours in
\* which no storage call has failed and nothing was updated or deleted.
C3_SecondInsertRejected ==
    \A p \in Procs : \A q \in g[p].raced :
        (pc[p] = "done" /\ pc[q] = "done" /\ faults = 0 /\ edits = 0)
        => /\ result[p][1].oid = result[q][1].oid
           /\ g[p].inserts + g[q].inserts <= 1

\* C4: a dedup check that finds a stored document for the requested id ends
\* the run with that document as the result; the store is left as it was
\* and the call has fetched, processed, inserted and updated nothing.
C4_DedupHitShortCircuits ==
    [][\A p \in Procs :
          (/\ pc[p] = "lookup"
           /\ pc'[p] # "lookup"
           /\ faults' = faults
           /\ DocsFor(vid[p]) # {})
          => /\ pc'[p] = "done"
             /\ \E d \in DocsFor(vid[p]) : result'[p] = <<d>>
             /\ videos' = videos
             /\ errors' = errors
             /\ nextOid' = nextOid
             /\ NoPipelineWork(g'[p])]_vars

C4_Witness == \E p \in Procs : pc[p] = "done" /\ g[p].hit

\* C5: a call whose metadata fetch failed has left a processing error
\* record carrying its video URL, has failed, and has inserted nothing.
C5_FetchFailureRecorded ==
    \A p \in Procs :
        g[p].failedAt = "fetch"
        => /\ pc[p] = "failed"
           /\ g[p].inserts = 0
           /\ \E e \in errors : e.video_url = url[p]

\* C6: a run whose transcript was unavailable, or whose content
\* transformation raised, inserts no document.
C6_NoPartialPersist ==
    \A p \in Procs :
        (/\ pc[p] \in {"insert", "readback"}
         /\ transcript[p] = NoTranscript \/ g[p].remoteThrew)
        => g[p].inserts = 0

\* C7: a call whose URL has no known shape fails at identification, before
\* any lookup, fetch, transcript request, backend call or insert.
C7_IdentifyFirst ==
    \A p \in Procs :
        (pc[p] # "idle" /\ ~KnownShape(url[p]))
        => /\ pc[p] = "failed"
           /\ g[p].failedAt = "identify"
           /\ g[p].lookups = 0
           /\ NoPipelineWork(g[p])
           /\ result[p] = <<>>

C7_Witness ==
    \E p \in Procs : pc[p] = "failed" /\ g[p].failedAt = "identify"

\* C8: with no Modal token, every call that returns a document returns one
\* with a non-empty summary, at least one chapter and processing_status
\* completed.
C8_DegradedComplete ==
    ~use_modal
    => \A p \in Procs :
          pc[p] = "done"
          => /\ result[p][1].summary > 0
             /\ result[p][1].chapters >= 1
             /\ ProcessingStatus(result[p][1]) = "completed"

\* C9: when the configured Modal call throws, the simplified backend is
\* invoked exactly once in that run, the video data is built from its
\* output, and process_video_content does not fail the run.
C9_FallbackOnce ==
    \A p \in Procs :
        g[p].remoteThrew
        => /\ g[p].simplified = 1
           /\ g[p].modal = 1
           /\ g[p].failedAt \in {"", "insert", "readback"}
           /\ pc[p] \in {"insert", "readback"}
              => data[p] = ApplyProcessed(VideoDetails(url[p]), transcript[p],
                                          SimplifiedProcessing(transcript[p]))

C9_Witness ==
    \E p \in Procs :
        /\ g[p].remoteThrew
        /\ pc[p] = "readback"
        /\ data[p].summary = SummaryChars + EllipsisLen

\* C10: the chunks of a text, joined by single spaces and whitespace
\* normalised, are the whitespace-normalised text.
C10_ChunkRoundTrip ==
    cpc = "done" => Normalize(Join(chunks)) = Normalize(text)

C10_Witness ==
    /\ cpc = "done"
    /\ Len(chunks) >= 2
    /\ Len(Split(text)) >= 2
    /\ text # Normalize(text)

\* A chunk of one word whose own estimate is above the budget.
LoneLongWord(c) ==
    Len(Split(c)) = 1 /\ SumWordTokens(Split(c)) > max_tokens

\* The early return of chunk_by_tokens was taken.
WholeTextReturned == CountTokens(text) <= max_tokens /\ chunks = <<text>>

\* All words of a list of chunks, in order.
RECURSIVE WordsOf(_)
WordsOf(cs) == IF cs = <<>> THEN <<>> ELSE Split(Head(cs)) \o WordsOf(Tail(cs))

\* C11 as stated: no returned chunk has a running word estimate above the
\* budget, except a chunk of a single word whose own estimate is above it.
C11_ChunkWithinBudget ==
    cpc = "done"
    => \A i \in 1..Len(chunks) :
          SumWordTokens(Split(chunks[i])) <= max_tokens \/ LoneLongWord(chunks[i])

\* C11, amended: the bound holds for every chunk the word loop produced;
\* a text returned whole by the early return is bounded by its own token
\* count, not by the running estimate of its words.
C11_LoopChunkWithinBudget ==
    cpc = "done"
    => \/ WholeTextReturned
       \/ \A i \in 1..Len(chunks) :
             \/ SumWordTokens(Split(chunks[i])) <= max_tokens
             \/ LoneLongWord(chunks[i])

C11_Witness ==
    /\ cpc = "done"
    /\ ~WholeTextReturned
    /\ Len(chunks) >= 2
    /\ \E i \in 1..Len(chunks) : Len(Split(chunks[i])) >= 2

\* C12: no returned chunk is empty unless the text is empty, and the chunks
\* are made of the whole words of the text, in order; also when the first
\* word alone is above the budget.
C12_NoEmptyChunk ==
    cpc = "done"
    => /\ \A i \in 1..Len(chunks) : chunks[i] # <<>> \/ text = <<>>
       /\ WordsOf(chunks) = Split(text)

\* C13: a text whose token count is within the budget comes back as exactly
\* one chunk, equal to the text.
C13_FitsReturnedWhole ==
    (cpc = "done" /\ CountTokens(text) <= max_tokens) => chunks = <<text>>

C13_Witness ==
    /\ cpc = "done"
    /\ CountTokens(text) <= max_tokens
    /\ text # Normalize(text)
    /\ Len(Split(text)) >= 2

\* The fragments of the chunk outputs so far, in chunk order and, within a
\* chunk, in the order of the response.  A chunk that failed is skipped and
\* has no output.
RECURSIVE AllItems(_)
AllItems(resps) ==
    IF resps = <<>> THEN <<>>
    ELSE (IF ChunkFailed(Head(resps)) THEN <<>> ELSE Head(resps).items)
           \o AllItems(Tail(resps))

\* The distinct titles of a list of fragments, in order of first appearance.
RECURSIVE FirstSeenTitles(_, _)
FirstSeenTitles(items, seen) ==
    IF items = <<>> THEN seen
    ELSE IF \E j \in 1..Len(seen) : seen[j] = Head(items).title
    THEN FirstSeenTitles(Tail(items), seen)
    ELSE FirstSeenTitles(Tail(items), Append(seen, Head(items).title))

\* The contents of the fragments titled t, joined by a paragraph break.
RECURSIVE ContentsJoined(_, _, _)
ContentsJoined(items, t, acc) ==
    IF items = <<>> THEN acc
    ELSE IF Head(items).title = t /\ Head(items).has_content
    THEN ContentsJoined(Tail(items), t,
                        IF acc = <<>> THEN Head(items).content
                        ELSE acc \o <<"\n\n">> \o Head(items).content)
    ELSE ContentsJoined(Tail(items), t, acc)

\* The lists named field of the fragments titled t, concatenated.
RECURSIVE ListsJoined(_, _, _)
ListsJoined(items, t, field) ==
    IF items = <<>> THEN <<>>
    ELSE (IF Head(items).title = t THEN Head(items)[field] ELSE <<>>)
           \o ListsJoined(Tail(items), t, field)

\* C14: the merged chapter list holds exactly one record per distinct title
\* that appeared in a chunk output, in order of first appearance.
C14_OneRecordPerTitle ==
    stage \in {"chapters", "glossary"}
    => [j \in 1..Len(chapters) |-> chapters[j].title]
          = FirstSeenTitles(AllItems(responses), <<>>)

\* C15: every merged record's content is the contents of all fragments with
\* its title, in chunk order, joined by "\n\n", and each of its lists is the
\* concatenation of those fragments' lists, duplicates kept.
C15_MergedInOrder ==
    stage \in {"chapters", "glossary"}
    => \A j \in 1..Len(chapters) :
          LET t == chapters[j].title
              all == AllItems(responses)
          IN  /\ chapters[j].content = ContentsJoined(all, t, <<>>)
              /\ chapters[j].key_points = ListsJoined(all, t, "key_points")
              /\ chapters[j].examples = ListsJoined(all, t, "examples")
              /\ chapters[j].quotes = ListsJoined(all, t, "quotes")

\* C16 as stated: with at most three outline entries every chunk is given
\* all of them; otherwise the first chunk is given entries [0, min(3, n))
\* and the last chunk the final three, [n-3, n).
C16_EdgeWindows ==
    \A j \in 1..Len(prompts) :
        LET n == Len(chapter_outline)
        IN  /\ n <= 3 => prompts[j] = chapter_outline
            /\ (n > 3 /\ j = 1)
               => prompts[j] = Slice(chapter_outline, 0, MinOf(3, n))
            /\ (n > 3 /\ j = transcript_chunks)
               => prompts[j] = Slice(chapter_outline, n - 3, n)

\* C16, amended: the last chunk is given the final three entries when it is
\* not also the first chunk; a single chunk is given entries [0, 3).
C16_EdgeWindowsFirstWins ==
    \A j \in 1..Len(prompts) :
        LET n == Len(chapter_outline)
        IN  /\ n <= 3 => prompts[j] = chapter_outline
            /\ (n > 3 /\ j = 1)
               => prompts[j] = Slice(chapter_outline, 0, MinOf(3, n))
            /\ (n > 3 /\ j = transcript_chunks /\ j # 1)
               => prompts[j] = Slice(chapter_outline, n - 3, n)

C16_Witness ==
    /\ Len(chapter_outline) >= 7
    /\ transcript_chunks >= 3
    /\ Len(prompts) = transcript_chunks
    /\ prompts[1] = <<0, 1, 2>>
    /\ prompts[transcript_chunks][1] = Len(chapter_outline) - 3

\* C19: a chunk whose chapter extraction fails (the call raises, the body is
\* not JSON, or a fragment is malformed) is skipped as a whole: the merged
\* chapter list after the chunk is the list before it.
C19_FailedChunkSkipped ==
    [][(/\ stage = "chapters"
        /\ Len(responses') = Len(responses) + 1
        /\ ChunkFailed(responses'[Len(responses')]))
       => chapters' = chapters]_vars

C17_ProcessSchedulesOne ==
    /\ Len(background_tasks) = Len(api_log)
    /\ \A j \in 1..Len(api_log) :
          /\ api_log[j].status = "pending"
          /\ api_log[j].task_id # <<>>
          /\ background_tasks[j].arg = api_log[j].url

\* C18: when some but not all stages of the capable backend fail, the
\* returned document keeps the summary and the chapters of the capable
\* stages that succeeded, and a failed glossary stage leaves an empty
\* glossary.
C18_PerStageFallback ==
    (/\ ai_pc = "done"
     /\ use_modal
     /\ ai_transcript # NoTranscript
     /\ failed_stages # {}
     /\ failed_stages # ModalStages)
    => /\ "summary" \notin failed_stages
          => ai_out.summary = CapableComplete.summary
       /\ "chapters" \notin failed_stages
          => ai_out.chapters = CapableComplete.chapters
       /\ "glossary" \in failed_stages => ai_out.glossary = 0

\* C21: when the outline stage's call fails or its response cannot be
\* parsed, process_transcript raises: the overview call is the only
\* completion call made, no chapter, glossary or further-reading work is
\* done, and no document is assembled or returned.
C21_OutlineFailureRaises ==
    (Len(llm_calls) >= 1 /\ ~llm_calls[1].ok) =>
        /\ stage = "raised"
        /\ llm_calls = <<LlmCall("overview", FALSE)>>
        /\ prompts = <<>> /\ responses = <<>> /\ chapters = <<>>
        /\ glossary = {} /\ further_reading = <<>>
        /\ processed_content = <<>>

C21_Witness ==
    /\ stage = "raised"
    /\ llm_calls = <<LlmCall("overview", FALSE)>>
    /\ overview_data = <<>>

\* The chapter list after the first j chunks of the run.
RECURSIVE MergedUpTo(_)
MergedUpTo(j) ==
    IF j = 0 THEN <<>> ELSE MergeChunk(MergedUpTo(j - 1), responses[j])

StageFailed(st) ==
    \E j \in 1..Len(llm_calls) : llm_calls[j] = LlmCall(st, FALSE)

\* C22: after a successful outline stage, a failed glossary stage leaves
\* the empty mapping and a failed further-reading stage leaves the empty
\* list, the run goes on, and the document returned carries the overview's
\* summary and key themes and the chapters merged by the loop.
C22_LateFailuresDefault ==
    /\ StageFailed("glossary") =>
          glossary = {} /\ stage \in {"further", "returned"}
    /\ StageFailed("further") =>
          further_reading = <<>> /\ stage = "returned"
    /\ (stage = "returned"
        /\ (StageFailed("glossary") \/ StageFailed("further"))) =>
          /\ Len(processed_content) = 1
          /\ processed_content[1].glossary = glossary
          /\ processed_content[1].further_reading = further_reading
          /\ processed_content[1].chapters = MergedUpTo(transcript_chunks)
          /\ processed_content[1].summary =
                (IF "summary" \in overview_data[1] THEN "overview" ELSE "")
          /\ processed_content[1].key_themes =
                (IF "key_themes" \in overview_data[1]
                 THEN <<"theme">> ELSE <<>>)

C22_Witness ==
    /\ stage = "returned"
    /\ StageFailed("glossary")
    /\ StageFailed("further")
    /\ overview_data = <<OverviewKeys>>
    /\ processed_content[1].chapters # <<>>
    /\ processed_content[1].summary = "overview"
    /\ processed_content[1].glossary = {}
    /\ processed_content[1].further_reading = <<>>

\* C23: a parsed response is accepted whatever keys it lacks: every
\* fragment of every chapter mapping that parsed has a chapter record under
\* its title (a missing "content" counting as the empty string), and an
\* overview that parsed lets the run go on with the defaults.
C23_MissingKeysDefaulted ==
    /\ \A j \in 1..Len(responses) :
          responses[j].kind = "json" =>
             \A m \in 1..Len(responses[j].items) :
                \E c \in 1..Len(chapters) :
                   chapters[c].title = responses[j].items[m].title
    /\ overview_data # <<>> => stage # "raised"

\* floor(((idx + 1) / total) * n * tenths / 10) over the rationals.
ExactFloor(idx, total, n, tenths) ==
    ((idx + 1) * n * tenths) \div (total * 10)

\* C24: for an outline of more than three entries, a chunk that is neither
\* the first nor the last is given the entries [start, end) with
\* start = floor(progress * n * 0.8) clamped to [0, n - 1] and
\* end = floor(progress * n * 1.2) + 1 clamped to [start + 1, n]; the window
\* is non-empty and lies within the outline.
C24_MiddleWindow ==
    \A j \in 1..Len(prompts) :
       LET n == Len(chapter_outline)
           idx == j - 1
           start == MaxOf(0, MinOf(ExactFloor(idx, transcript_chunks, n, 8),
                                   n - 1))
           end == MaxOf(start + 1,
                        MinOf(ExactFloor(idx, transcript_chunks, n, 12) + 1,
                              n))
       IN  (n > 3 /\ idx # 0 /\ idx # transcript_chunks - 1) =>
              /\ prompts[j] = Slice(chapter_outline, start, end)
              /\ prompts[j] # <<>>
              /\ \A e \in 1..Len(prompts[j]) : prompts[j][e] \in 0..(n - 1)

\* The outline entries chunk j (1-based) was asked to produce.
Asked(j) == {prompts[j][e] : e \in 1..Len(prompts[j])}

\* C28: once the chapter loop is over, for an outline of more than three
\* entries and any number of chunks from one up, every outline entry was in
\* the window of at least one chunk.
C28_EveryEntryAsked ==
    (Len(chapter_outline) > 3 /\ transcript_chunks >= 1
     /\ Len(prompts) = transcript_chunks) =>
       \A e \in 0..(Len(chapter_outline) - 1) :
          \E j \in 1..Len(prompts) : e \in Asked(j)

\* C26: when applying the processed content fails after the backend
\* returned, process_video_content returns the video data it was given,
\* every field as it was in the input.
C26_FailedApplyReturnsInput ==
    (/\ ai_pc = "done"
     /\ use_modal
     /\ ai_transcript # NoTranscript
     /\ failed_stages = {}
     /\ ai_remote.bad = "chapter")
       => \E u \in Urls : KnownShape(u) /\ ai_out = VideoDetails(u)

\* C27: a Dedup-Check lookup that fails in the store is a miss: the call
\* returns nothing yet, leaves the store alone and goes on to the pipeline,
\* although a document for the video id is stored; and a pipeline insert
\* always adds one more document for that id.
C27_FailedLookupIsMiss ==
    [][\A p \in Procs :
          /\ (pc[p] = "lookup" /\ pc'[p] # "lookup" /\ faults' = faults + 1)
                => /\ DocsFor(vid[p]) # {}
                   /\ pc'[p] = "process"
                   /\ result'[p] = <<>>
                   /\ videos' = videos
          /\ (pc[p] = "insert" /\ pc'[p] = "readback")
                => /\ videos' = videos \cup {Stored(data[p], nextOid)}
                   /\ Cardinality(videos') = Cardinality(videos) + 1]_vars

C27_Witness ==
    \E p \in Procs :
       /\ pc[p] = "done"
       /\ ~g[p].hit
       /\ g[p].raced = {}
       /\ g[p].inserts = 1
       /\ faults = 1
       /\ Cardinality(DocsFor(vid[p])) >= 2

\* C25: while one request waits on its capable-backend call or on a
\* storage call, any other request that is ready to run can take its next
\* step on the same event loop.
C25_WaitingDoesNotBlock ==
    \A p \in Tasks, q \in Tasks :
       (/\ p # q
        /\ task_pc[p] \in {"remote"} \cup IoWaits
        /\ task_pc[q] \in Runnable)
       => ENABLED TaskStep(q)

\* What the first j calls of the chunk loop should have left in the
\* transcript: the placeholder for a failed call, a blank and the text for
\* a call that succeeded.
RECURSIVE PiecesUpTo(_)
PiecesUpTo(j) ==
    IF j = 0 THEN <<>>
    ELSE PiecesUpTo(j - 1)
           \o (IF stt_calls[j].ok THEN <<" ", "t">> ELSE <<ErrorPlaceholder>>)

\* C29: for audio of 600 seconds or more every chunk is attempted in
\* order; a chunk whose call fails leaves the placeholder at its position
\* and no segment, the loop goes on, and the function returns the stripped
\* transcript and the segments without raising.
C29_FailedChunkPlaceholder ==
    (duration_sec >= ShortAudioLimit /\ stt_pc \notin {"off", "input"}) =>
       /\ stt_pc \in {"loop", "returned"}
       /\ Len(stt_calls) = stt_i
       /\ \A j \in 1..Len(stt_calls) :
             /\ stt_calls[j].chunk = j - 1
             /\ ~stt_calls[j].ok =>
                   \A e \in 1..Len(all_segments) :
                      all_segments[e].start # ChunkOffset(j - 1)
       /\ full_transcript = PiecesUpTo(Len(stt_calls))
       /\ stt_pc = "returned" =>
             /\ stt_i = NumChunks
             /\ stt_result = <<[transcript |-> StripTranscript(full_transcript),
                                segments |-> all_segments]>>

C29_Witness ==
    /\ stt_pc = "returned"
    /\ duration_sec >= ShortAudioLimit
    /\ Len(stt_calls) >= 3
    /\ ~stt_calls[1].ok
    /\ stt_calls[2].ok
    /\ ~stt_calls[3].ok
    /\ all_segments # <<>>
    /\ stt_result[1].transcript[1] = ErrorBody
    /\ stt_result[1].transcript[4] = ErrorPlaceholder

\* The pages a sorted read of the documents docs can give.
PagesOf(docs, args) ==
    {Returned(Page(o, args.skip, args.limit)) : o \in Orderings(docs, args)}

\* C30: with a search text, get_videos returns a page of the documents the
\* text matches, best score first, whatever category and tags were given;
\* without one, every returned document has the given category and all the
\* given tags, newest first.
C30_SearchOverridesFilters ==
    list_pc = "done" =>
       LET args == list_args[1]
           res == list_result[1]
       IN  IF TruthyText(args.search)
           THEN /\ res = <<>>
                   \/ res \in PagesOf({d \in catalog : d.score > 0}, args)
                /\ \A i, j \in 1..Len(res) :
                      i < j => res[i].score >= res[j].score
           ELSE /\ \A i \in 1..Len(res) :
                      /\ TruthyText(args.category) =>
                            args.category[1] \in res[i].categories
                      /\ TruthyList(args.tags) =>
                            args.tags[1] \subseteq res[i].tags
                /\ \A i, j \in 1..Len(res) :
                      i < j => res[i].created_at >= res[j].created_at

C30_Witness ==
    /\ list_pc = "done"
    /\ list_args[1].search = <<"q">>
    /\ list_args[1].category = <<"c1">>
    /\ list_args[1].tags = <<{"t1", "t2"}>>
    /\ Len(list_result[1]) = 2
    /\ list_result[1][2].categories = {"c2"}
    /\ list_result[1][2].tags = {"t1"}

====
